---- MODULE Spec2Model ----
(***************************************************************************)
(* Model of the GPIO line driver of src/app.js (Gpio): the listener list,  *)
(* the registration of the value descriptor with the Epoll readiness       *)
(* facility, the debounce timers and the fan-out of a poller delivery.     *)
(*                                                                         *)
(* The program is single threaded: a poller delivery (pollerEventHandler)  *)
(* runs to completion before any other event is dispatched.  The callbacks *)
(* it invokes are caller code; what a callback does with the line (watch,  *)
(* unwatch) is an input, so the handler is split at the points where it    *)
(* hands control to a callback: Deliver is lines 231-247, Invoke is one    *)
(* iteration of the forEach of lines 249-251, Return is its end.  Watch    *)
(* and Unwatch may be called from the top level or from the body of a      *)
(* callback that a delivery has invoked.                                   *)
(*                                                                         *)
(* Three specifications share the state: Spec is the watch machinery of a  *)
(* constructed line, SpecNew is the constructor followed by the first      *)
(* calls on the line, SpecIO is the value channel (synchronous and         *)
(* asynchronous reads and writes through the one descriptor and the one    *)
(* read buffer).  An asynchronous fs call is split where the code is       *)
(* split: the call, the I/O done by the runtime, and the completion        *)
(* callback that the event loop dispatches later.                          *)
(***************************************************************************)
EXTENDS Naturals, Sequences, FiniteSets

\* ---- bounds ----
MaxListeners == 3    \* longest listener list explored
MaxTimers == 2       \* most debounce timers pending at once
MaxWatchCalls == 4   \* watch() calls per run (caps the call counter)
MaxPending == 2      \* asynchronous reads and writes in flight at once

\* ---- inputs ----
Callbacks == {"a", "b"}          \* the function objects callers pass
NoCallback == "undefined"        \* unwatch() called without a function
DebounceTimeouts == {0, 50}      \* debounceTimeout: the default and one > 0

Values == {0, 1}                 \* the values written to a line
Directions == {"in", "out"}      \* the direction argument
Edges == {"none", "both"}        \* contents of the edge file
NoEdge == "undefined"            \* the edge argument left out
OptionsObject == "object"        \* the options passed in the place of edge

\* lines 65-66: the two write buffers, also the bytes of the value file
zero == "0"
one == "1"
Bytes == {zero, one}
Junk == "junk"                   \* the content of a buffer never read into

\* Epoll event flags
EPOLLPRI == "EPOLLPRI"
EPOLLONESHOT == "EPOLLONESHOT"

VARIABLES
    persistentWatch,  \* this.opts.persistentWatch
    debounceTimeout,  \* this.opts.debounceTimeout
    listeners,        \* this.listeners
    poller,           \* the registration of this.valueFd in this.poller
    fdOpen,           \* this.valueFd is open
    timers,           \* number of pending setTimeout callbacks
    pc,               \* "idle", or "fanout" inside pollerEventHandler's forEach
    callbacks,        \* pollerEventHandler's local: the snapshot
    idx,              \* forEach position in the fan-out list
    err,              \* the err argument of the delivery being handled
    invoked,          \* log: <<callback, err>> per invocation of this delivery
    built,            \* "no", "yes" or "failed": the constructor's outcome
    sysfs,            \* the line's directory: exists, direction file, edge file
    valueFile,        \* the byte at offset 0 of the line's value file
    readBuffer,       \* this.readBuffer[0]
    pending,          \* the fs.read / fs.write requests in flight
    result,           \* log: what the last call returned or its callback got
    ctorArgs,         \* log: the direction and edge the constructor was given
    lastOp,           \* log: the operation that produced this state
    lastArg,          \* log: its callback argument
    calls,            \* log: calls made by lastOp on fs, the facility and timers
    thrown,           \* log: the error lastOp raised, or "none"
    removed,          \* log: number of entries the last unwatch took out
    nWatch,           \* log: number of watch() calls so far
    nInvoked          \* log: number of callback invocations so far (saturating)

vars == <<persistentWatch, debounceTimeout, listeners, poller, fdOpen, timers,
          pc, callbacks, idx, err, invoked, built, sysfs, valueFile,
          readBuffer, pending, result, ctorArgs, lastOp, lastArg, calls,
          thrown, removed, nWatch, nInvoked>>

\* the state outside the object that the watch machinery never touches
lineVars == <<built, sysfs, valueFile, pending, result, ctorArgs>>
\* the state of the watch machinery
watchVars == <<listeners, poller, timers, pc, callbacks, idx, err, invoked,
               removed, nWatch, nInvoked>>

opts == <<persistentWatch, debounceTimeout>>

\* ---- the readiness facility (Epoll), for the one descriptor of the line ----
Unregistered == [registered |-> FALSE, armed |-> FALSE, events |-> {}]

\* epoll_ctl(EPOLL_CTL_ADD): fails with EEXIST on a registered descriptor
PollerAdd(p, events) ==
    IF p.registered
    THEN [poller |-> p, thrown |-> "EEXIST"]
    ELSE [poller |-> [registered |-> TRUE, armed |-> TRUE, events |-> events],
          thrown |-> "none"]

\* epoll_ctl(EPOLL_CTL_MOD): fails with ENOENT on an unregistered descriptor
PollerModify(p, events) ==
    IF ~p.registered
    THEN [poller |-> p, thrown |-> "ENOENT"]
    ELSE [poller |-> [registered |-> TRUE, armed |-> TRUE, events |-> events],
          thrown |-> "none"]

\* epoll_ctl(EPOLL_CTL_DEL): fails with ENOENT on an unregistered descriptor
PollerRemove(p) ==
    IF ~p.registered
    THEN [poller |-> p, thrown |-> "ENOENT"]
    ELSE [poller |-> Unregistered, thrown |-> "none"]

\* the kernel reporting one event: a one-shot registration is disarmed
PollerFired(p) ==
    IF EPOLLONESHOT \in p.events THEN [p EXCEPT !.armed = FALSE] ELSE p

\* ---- Gpio.prototype.watch ----
\* line 196: the add happens when the pushed callback is the only listener
FirstListenerLenient(ls) == Len(ls) >= 1
FirstListener(ls) == Len(ls) = 1

\* lines 197-200: the event mask of the add
WatchEventsNoOneShot == {EPOLLPRI}
WatchEvents ==
    IF ~persistentWatch \/ debounceTimeout > 0
    THEN {EPOLLPRI, EPOLLONESHOT}
    ELSE {EPOLLPRI}

Watch(cb) ==
    /\ built = "yes"
    /\ fdOpen
    /\ pc = "idle" \/ (pc = "fanout" /\ idx > 1)
    /\ Len(listeners) < MaxListeners
    /\ nWatch < MaxWatchCalls
    /\ listeners' = Append(listeners, cb)
    /\ LET r == IF FirstListener(listeners')
                THEN PollerAdd(poller, WatchEvents)
                ELSE [poller |-> poller, thrown |-> "none"]
       IN /\ poller' = r.poller
          /\ thrown' = r.thrown
          /\ calls' = IF FirstListener(listeners') THEN <<"add">> ELSE <<>>
    /\ removed' = 0
    /\ lastOp' = "watch"
    /\ lastArg' = cb
    /\ nWatch' = nWatch + 1
    /\ UNCHANGED <<lineVars, readBuffer>>
    /\ UNCHANGED <<opts, fdOpen, timers, pc, callbacks, idx, err, invoked, nInvoked>>

\* ---- Gpio.prototype.unwatch / unwatchAll ----
\* lines 213-215: Array.prototype.filter with callback !== listener
RECURSIVE FilterFirst(_, _)
FilterFirst(ls, cb) ==
    IF ls = <<>> THEN <<>>
    ELSE IF Head(ls) # cb THEN <<Head(ls)>> \o FilterFirst(Tail(ls), cb)
    ELSE Tail(ls)
RECURSIVE Filter(_, _)
Filter(ls, cb) ==
    IF ls = <<>> THEN <<>>
    ELSE IF cb # Head(ls) THEN <<Head(ls)>> \o Filter(Tail(ls), cb)
    ELSE Filter(Tail(ls), cb)

\* line 218: the remove happens when no listener is left
NoListenerLeftEager(ls) == Len(ls) <= 1
NoListenerLeftNever(ls) == FALSE
NoListenerLeft(ls) == Len(ls) = 0

\* lines 208-222, as a function of the listener list and the registration
UnwatchEffect(ls, p, cb) ==
    IF Len(ls) > 0
    THEN LET kept == IF cb = NoCallback THEN <<>> ELSE Filter(ls, cb)
             r == IF NoListenerLeft(kept)
                  THEN PollerRemove(p)
                  ELSE [poller |-> p, thrown |-> "none"]
         IN [listeners |-> kept, poller |-> r.poller, thrown |-> r.thrown,
             calls |-> IF NoListenerLeft(kept) THEN <<"remove">> ELSE <<>>]
    ELSE [listeners |-> ls, poller |-> p, thrown |-> "none", calls |-> <<>>]

\* unwatch(cb), unwatch() and unwatchAll() (lines 227-229: this.unwatch())
Unwatch(cb) ==
    /\ built = "yes"
    /\ fdOpen
    /\ pc = "idle" \/ (pc = "fanout" /\ idx > 1)
    /\ LET r == UnwatchEffect(listeners, poller, cb)
       IN /\ listeners' = r.listeners
          /\ poller' = r.poller
          /\ thrown' = r.thrown
          /\ calls' = r.calls
    /\ removed' = Len(listeners) - Len(listeners')
    /\ lastOp' = "unwatch"
    /\ lastArg' = cb
    /\ UNCHANGED <<lineVars, readBuffer>>
    /\ UNCHANGED <<opts, fdOpen, timers, pc, callbacks, idx, err, invoked,
                   nWatch, nInvoked>>

\* ---- pollerEventHandler ----
\* line 233: this.listeners.slice(0)
SliceTwice(ls) == ls \o ls
Slice(ls) == ls

\* line 235: the policy that schedules a debounce timer
DebouncePolicyAny == persistentWatch
DebouncePolicyNever == FALSE
DebouncePolicy == persistentWatch /\ debounceTimeout > 0

\* line 245: the policy that ends the watch after one delivery
OneShotPolicyNever == FALSE
OneShotPolicyAlways == TRUE
OneShotPolicy == ~persistentWatch

\* lines 231-247: read, snapshot, timer, unwatchAll.  The facility delivers
\* only for an armed registration.
Deliver(e) ==
    /\ fdOpen
    /\ pc = "idle"
    /\ poller.registered /\ poller.armed
    /\ DebouncePolicy => timers < MaxTimers
    /\ LET fired == PollerFired(poller)
           r == IF OneShotPolicy
                THEN UnwatchEffect(listeners, fired, NoCallback)
                ELSE [listeners |-> listeners, poller |-> fired,
                      thrown |-> "none", calls |-> <<>>]
       IN /\ readBuffer' = valueFile
          /\ callbacks' = Slice(listeners)
          /\ timers' = IF DebouncePolicy THEN timers + 1 ELSE timers
          /\ listeners' = r.listeners
          /\ poller' = r.poller
          /\ thrown' = r.thrown
          /\ calls' = <<"read">>
                      \o (IF DebouncePolicy THEN <<"setTimeout">> ELSE <<>>)
                      \o r.calls
          /\ pc' = IF r.thrown = "none" THEN "fanout" ELSE "idle"
    /\ idx' = 1
    /\ err' = e
    /\ invoked' = <<>>
    /\ removed' = 0
    /\ lastOp' = "deliver"
    /\ lastArg' = NoCallback
    /\ UNCHANGED lineVars
    /\ UNCHANGED <<opts, fdOpen, nWatch, nInvoked>>

\* line 249: the list the forEach walks
FanOutListLive == listeners
FanOutList == callbacks

\* lines 249-251: one iteration, callback(err, value)
Invoke ==
    /\ pc = "fanout"
    /\ idx <= Len(FanOutList)
    /\ invoked' = Append(invoked, <<FanOutList[idx], err>>)
    /\ idx' = idx + 1
    /\ nInvoked' = IF nInvoked <= MaxWatchCalls THEN nInvoked + 1 ELSE nInvoked
    /\ removed' = 0
    /\ lastOp' = "invoke"
    /\ lastArg' = FanOutList[idx]
    /\ calls' = <<>>
    /\ thrown' = "none"
    /\ UNCHANGED <<lineVars, readBuffer>>
    /\ UNCHANGED <<opts, listeners, poller, fdOpen, timers, pc, callbacks, err,
                   nWatch>>

\* line 252: the forEach is exhausted and the handler returns
Return ==
    /\ pc = "fanout"
    /\ idx > Len(FanOutList)
    /\ pc' = "idle"
    /\ removed' = 0
    /\ lastOp' = "return"
    /\ lastArg' = NoCallback
    /\ calls' = <<>>
    /\ thrown' = "none"
    /\ UNCHANGED <<lineVars, readBuffer>>
    /\ UNCHANGED <<opts, listeners, poller, fdOpen, timers, callbacks, idx, err,
                   invoked, nWatch, nInvoked>>

\* line 237: the debounce timer re-arms only while listeners are present
StillWatchedAlways == TRUE
StillWatched == Len(listeners) > 0

\* lines 236-242: the setTimeout callback
TimerFire ==
    /\ pc = "idle"
    /\ timers > 0
    /\ timers' = timers - 1
    /\ IF StillWatched
       THEN IF fdOpen
            THEN LET r == PollerModify(poller, {EPOLLPRI, EPOLLONESHOT})
                 IN /\ readBuffer' = valueFile
                    /\ poller' = r.poller
                    /\ thrown' = r.thrown
                    /\ calls' = <<"read", "modify">>
            ELSE /\ readBuffer' = readBuffer
                 /\ poller' = poller
                 /\ thrown' = "EBADF"
                 /\ calls' = <<"read">>
       ELSE /\ readBuffer' = readBuffer
            /\ poller' = poller
            /\ thrown' = "none"
            /\ calls' = <<>>
    /\ removed' = 0
    /\ lastOp' = "timer"
    /\ lastArg' = NoCallback
    /\ UNCHANGED lineVars
    /\ UNCHANGED <<opts, listeners, fdOpen, pc, callbacks, idx, err, invoked,
                   nWatch, nInvoked>>

\* ---- Gpio.prototype.unexport (lines 285-289) ----
Unexport ==
    /\ built = "yes"
    /\ fdOpen
    /\ pc = "idle"
    /\ LET r == UnwatchEffect(listeners, poller, NoCallback)
       IN /\ listeners' = r.listeners
          /\ poller' = r.poller
          /\ thrown' = r.thrown
          /\ fdOpen' = (r.thrown # "none")
          /\ calls' = r.calls \o (IF r.thrown = "none"
                                  THEN <<"close", "unexport">> ELSE <<>>)
    /\ removed' = 0
    /\ lastOp' = "unexport"
    /\ lastArg' = NoCallback
    /\ UNCHANGED <<lineVars, readBuffer>>
    /\ UNCHANGED <<opts, timers, pc, callbacks, idx, err, invoked, nWatch,
                   nInvoked>>

\* nothing returned and no callback invoked
NoResult == [op |-> "none", called |-> FALSE, err |-> FALSE, value |-> "none",
             fetched |-> "none"]

\* ---- the value channel ----
\* lines 140 and 152: buf[0] === one[0] ? 1 : 0
ToValueInverted(b) == IF b = one THEN 0 ELSE 1
ToValue(b) == IF b = one THEN 1 ELSE 0

\* lines 162 and 174: value === 1 ? one : zero
WriteBufferSwapped(v) == IF v = 1 THEN zero ELSE one
WriteBuffer(v) == IF v = 1 THEN one ELSE zero

\* the log variables of a step that is not part of the watch machinery
Logged(op, cs, e) ==
    /\ lastOp' = op
    /\ lastArg' = NoCallback
    /\ calls' = cs
    /\ thrown' = e

\* Gpio.prototype.readSync (lines 150-153); fs.readSync throws on failure
ReadSync(fail) ==
    /\ built = "yes"
    /\ fdOpen
    /\ pc = "idle"
    /\ IF fail
       THEN /\ readBuffer' = readBuffer
            /\ result' = [NoResult EXCEPT !.op = "readSync", !.called = TRUE,
                                          !.err = TRUE]
            /\ Logged("readSync", <<"read">>, "EIO")
       ELSE /\ readBuffer' = valueFile
            /\ result' = [op |-> "readSync", called |-> TRUE, err |-> FALSE,
                          value |-> ToValue(readBuffer'), fetched |-> valueFile]
            /\ Logged("readSync", <<"read">>, "none")
    /\ UNCHANGED <<opts, fdOpen, built, sysfs, valueFile, pending, ctorArgs,
                   watchVars>>

\* the kernel refuses a write to the value file of an input line
WriteFails(fail) == fail \/ sysfs.direction # "out"

\* Gpio.prototype.writeSync (lines 171-176); fs.writeSync throws on failure
WriteSync(v, fail) ==
    /\ built = "yes"
    /\ fdOpen
    /\ pc = "idle"
    /\ IF WriteFails(fail)
       THEN /\ valueFile' = valueFile
            /\ result' = [NoResult EXCEPT !.op = "writeSync", !.called = TRUE,
                                          !.err = TRUE, !.value = v]
            /\ Logged("writeSync", <<"write">>, "EIO")
       ELSE /\ valueFile' = WriteBuffer(v)
            /\ result' = [NoResult EXCEPT !.op = "writeSync", !.called = TRUE,
                                          !.value = v]
            /\ Logged("writeSync", <<"write">>, "none")
    /\ UNCHANGED <<opts, fdOpen, built, sysfs, readBuffer, pending, ctorArgs,
                   watchVars>>

\* a request handed to fs.read or fs.write: hasCb says whether the caller
\* passed a function, stage is "queued" until the runtime has done the I/O
Request(kind, hasCb, byte) ==
    [kind |-> kind, hasCb |-> hasCb, stage |-> "queued", err |-> FALSE,
     byte |-> byte]

Without(seq, i) == SubSeq(seq, 1, i - 1) \o SubSeq(seq, i + 1, Len(seq))

\* Gpio.prototype.read (line 137): the call itself only queues the request
Read(hasCb) ==
    /\ built = "yes"
    /\ fdOpen
    /\ pc = "idle"
    /\ Len(pending) < MaxPending
    /\ pending' = Append(pending, Request("read", hasCb, "none"))
    /\ result' = NoResult
    /\ Logged("read", <<>>, "none")
    /\ UNCHANGED <<opts, fdOpen, built, sysfs, valueFile, readBuffer, ctorArgs,
                   watchVars>>

\* the runtime performs the read of line 137 into this.readBuffer; byte
\* records what this request's own I/O fetched
ReadIO(i, fail) ==
    /\ pending[i].kind = "read"
    /\ pending[i].stage = "queued"
    /\ IF fail
       THEN /\ readBuffer' = readBuffer
            /\ pending' = [pending EXCEPT ![i].stage = "done", ![i].err = TRUE]
       ELSE /\ readBuffer' = valueFile
            /\ pending' = [pending EXCEPT ![i].stage = "done",
                                          ![i].byte = valueFile]
    /\ result' = NoResult
    /\ Logged("readIO", <<"read">>, "none")
    /\ UNCHANGED <<opts, fdOpen, built, sysfs, valueFile, ctorArgs, watchVars>>

\* line 140: buf is this.readBuffer, read when the callback runs
DeliveredByte(i) == readBuffer

\* line 139: if (err) return callback(err)
ReadFailedIgnored(i) == FALSE
ReadFailed(i) == pending[i].err

\* lines 137-142: the completion callback of fs.read
ReadDone(i) ==
    /\ pc = "idle"
    /\ pending[i].kind = "read"
    /\ pending[i].stage = "done"
    /\ pending' = Without(pending, i)
    /\ result' =
          IF ~pending[i].hasCb
          THEN [NoResult EXCEPT !.op = "read", !.err = pending[i].err,
                                !.fetched = pending[i].byte]
          ELSE IF ReadFailed(i)
          THEN [NoResult EXCEPT !.op = "read", !.called = TRUE, !.err = TRUE]
          ELSE [op |-> "read", called |-> TRUE, err |-> FALSE,
                value |-> ToValue(DeliveredByte(i)),
                fetched |-> pending[i].byte]
    /\ Logged("readDone", <<>>, "none")
    /\ UNCHANGED <<opts, fdOpen, built, sysfs, valueFile, readBuffer, ctorArgs,
                   watchVars>>

\* Gpio.prototype.write (lines 161-164): the buffer is chosen at the call
Write(v, hasCb) ==
    /\ built = "yes"
    /\ fdOpen
    /\ pc = "idle"
    /\ Len(pending) < MaxPending
    /\ pending' = Append(pending, Request("write", hasCb, WriteBuffer(v)))
    /\ result' = NoResult
    /\ Logged("write", <<>>, "none")
    /\ UNCHANGED <<opts, fdOpen, built, sysfs, valueFile, readBuffer, ctorArgs,
                   watchVars>>

\* the runtime performs the write of line 163
WriteIO(i, fail) ==
    /\ pending[i].kind = "write"
    /\ pending[i].stage = "queued"
    /\ IF WriteFails(fail)
       THEN /\ valueFile' = valueFile
            /\ pending' = [pending EXCEPT ![i].stage = "done", ![i].err = TRUE]
       ELSE /\ valueFile' = pending[i].byte
            /\ pending' = [pending EXCEPT ![i].stage = "done"]
    /\ result' = NoResult
    /\ Logged("writeIO", <<"write">>, "none")
    /\ UNCHANGED <<opts, fdOpen, built, sysfs, readBuffer, ctorArgs, watchVars>>

\* line 163: fs.write calls the caller's callback itself, with the error or
\* without; without a callback the runtime's default takes the error, and
\* rethrows it or not depending on the runtime
WriteDone(i, rethrows) ==
    /\ pc = "idle"
    /\ pending[i].kind = "write"
    /\ pending[i].stage = "done"
    /\ pending' = Without(pending, i)
    /\ result' = [NoResult EXCEPT !.op = "write", !.called = pending[i].hasCb,
                                  !.err = pending[i].err]
    /\ Logged("writeDone", <<>>,
              IF ~pending[i].hasCb /\ pending[i].err /\ rethrows
              THEN "EIO" ELSE "none")
    /\ UNCHANGED <<opts, fdOpen, built, sysfs, valueFile, readBuffer, ctorArgs,
                   watchVars>>

\* the level of an input line changes
Edge ==
    /\ built = "yes"
    /\ pc = "idle"
    /\ sysfs.exists /\ sysfs.direction = "in"
    /\ valueFile' = IF valueFile = one THEN zero ELSE one
    /\ result' = NoResult
    /\ Logged("edge", <<>>, "none")
    /\ UNCHANGED <<opts, fdOpen, built, sysfs, readBuffer, pending, ctorArgs,
                   watchVars>>

\* ---- the constructor (lines 91-128) ----
\* the state of a line that is not exported: no directory, no files
NotExported == [exists |-> FALSE, direction |-> "none", edge |-> "none"]

\* lines 94-97: an object in the place of edge is the options
EdgeGiven(edgeArg) == IF edgeArg = OptionsObject THEN NoEdge ELSE edgeArg

\* lines 112-119: the calls that export and configure the line
ExportCalls(edge) ==
    <<"write export", "write direction">>
    \o (IF edge # NoEdge THEN <<"write edge">> ELSE <<>>)
    \o <<"chmod">>

\* lines 111-127: the calls of the constructor, in order
ConstructorCallsClobber(exists, edge) ==
    <<"existsSync">> \o ExportCalls(edge) \o <<"open", "read", "new Epoll">>
ConstructorCallsNoRead(exists, edge) ==
    <<"existsSync">>
    \o (IF ~exists THEN ExportCalls(edge) ELSE <<>>)
    \o <<"open", "new Epoll">>
ConstructorCalls(exists, edge) ==
    <<"existsSync">>
    \o (IF ~exists THEN ExportCalls(edge) ELSE <<>>)
    \o <<"open", "read", "new Epoll">>

\* the fs calls that throw on failure
CanFail(c) ==
    c \in {"write export", "write direction", "write edge", "chmod", "open",
           "read"}

\* new Gpio(gpio, direction, edgeArg, options); failAt = 0 when every call
\* succeeds, otherwise the position of the call that throws.  An exported
\* line starts as an input with edge "none" until the files are written.
Construct(direction, edgeArg, failAt) ==
    LET edge == EdgeGiven(edgeArg)
        all == ConstructorCalls(sysfs.exists, edge)
        done == IF failAt = 0 THEN all ELSE SubSeq(all, 1, failAt - 1)
        Did(c) == \E i \in DOMAIN done : done[i] = c
    IN /\ built = "no"
       /\ failAt \in 0..Len(all)
       /\ failAt > 0 => CanFail(all[failAt])
       /\ built' = IF failAt = 0 THEN "yes" ELSE "failed"
       /\ sysfs' = IF Did("write export")
                   THEN [exists |-> TRUE,
                         direction |-> IF Did("write direction")
                                       THEN direction ELSE "in",
                         edge |-> IF Did("write edge") THEN edge ELSE "none"]
                   ELSE sysfs
       /\ fdOpen' = Did("open")
       /\ readBuffer' = IF Did("read") THEN valueFile ELSE readBuffer
       /\ ctorArgs' = <<direction, edgeArg>>
       /\ result' = NoResult
       /\ lastOp' = "construct"
       /\ lastArg' = NoCallback
       /\ calls' = IF failAt = 0 THEN all ELSE SubSeq(all, 1, failAt)
       /\ thrown' = IF failAt = 0 THEN "none" ELSE "EIO"
       /\ UNCHANGED <<opts, valueFile, pending, watchVars>>

\* the line of lines 8 and 15: constructed as an input with edge 'both',
\* no listener yet
Init ==
    /\ persistentWatch \in BOOLEAN
    /\ debounceTimeout \in DebounceTimeouts
    /\ listeners = <<>>
    /\ poller = Unregistered
    /\ fdOpen = TRUE
    /\ timers = 0
    /\ pc = "idle"
    /\ callbacks = <<>>
    /\ idx = 1
    /\ err = FALSE
    /\ invoked = <<>>
    /\ built = "yes"
    /\ sysfs = [exists |-> TRUE, direction |-> "in", edge |-> "both"]
    /\ valueFile = zero
    /\ readBuffer = valueFile
    /\ pending = <<>>
    /\ result = NoResult
    /\ ctorArgs = <<"in", "both">>
    /\ lastOp = "construct"
    /\ lastArg = NoCallback
    /\ calls = <<"open", "read">>
    /\ thrown = "none"
    /\ removed = 0
    /\ nWatch = 0
    /\ nInvoked = 0

Next ==
    \/ \E cb \in Callbacks : Watch(cb)
    \/ \E cb \in Callbacks \cup {NoCallback} : Unwatch(cb)
    \/ \E e \in BOOLEAN : Deliver(e)
    \/ Invoke
    \/ Return
    \/ TimerFire
    \/ Unexport

Spec == Init /\ [][Next]_vars

\* ---- the constructor and the first calls on the line ----
InitNew ==
    /\ persistentWatch \in BOOLEAN
    /\ debounceTimeout \in DebounceTimeouts
    /\ listeners = <<>>
    /\ poller = Unregistered
    /\ fdOpen = FALSE
    /\ timers = 0
    /\ pc = "idle"
    /\ callbacks = <<>>
    /\ idx = 1
    /\ err = FALSE
    /\ invoked = <<>>
    /\ built = "no"
    /\ sysfs \in {NotExported}
                 \cup [exists : {TRUE}, direction : Directions, edge : Edges]
    /\ valueFile \in Bytes
    /\ readBuffer = Junk
    /\ pending = <<>>
    /\ result = NoResult
    /\ ctorArgs = <<"none", NoEdge>>
    /\ lastOp = "none"
    /\ lastArg = NoCallback
    /\ calls = <<>>
    /\ thrown = "none"
    /\ removed = 0
    /\ nWatch = 0
    /\ nInvoked = 0

NextNew ==
    \/ \E direction \in Directions,
          edgeArg \in Edges \cup {NoEdge, OptionsObject},
          failAt \in 0..8 : Construct(direction, edgeArg, failAt)
    \/ \E fail \in BOOLEAN : ReadSync(fail)
    \/ \E cb \in Callbacks : Watch(cb)
    \/ \E cb \in Callbacks \cup {NoCallback} : Unwatch(cb)
    \/ Edge

SpecNew == InitNew /\ [][NextNew]_vars

\* ---- the value channel of a constructed line ----
InitIO ==
    /\ persistentWatch = FALSE
    /\ debounceTimeout = 0
    /\ listeners = <<>>
    /\ poller = Unregistered
    /\ fdOpen = TRUE
    /\ timers = 0
    /\ pc = "idle"
    /\ callbacks = <<>>
    /\ idx = 1
    /\ err = FALSE
    /\ invoked = <<>>
    /\ built = "yes"
    /\ sysfs \in [exists : {TRUE}, direction : Directions, edge : {"none"}]
    /\ valueFile \in Bytes
    /\ readBuffer = valueFile
    /\ pending = <<>>
    /\ result = NoResult
    /\ ctorArgs = <<sysfs.direction, NoEdge>>
    /\ lastOp = "construct"
    /\ lastArg = NoCallback
    /\ calls = <<"open", "read">>
    /\ thrown = "none"
    /\ removed = 0
    /\ nWatch = 0
    /\ nInvoked = 0

NextIO ==
    \/ \E fail \in BOOLEAN : ReadSync(fail)
    \/ \E v \in Values, fail \in BOOLEAN : WriteSync(v, fail)
    \/ \E hasCb \in BOOLEAN : Read(hasCb)
    \/ \E i \in DOMAIN pending, fail \in BOOLEAN : ReadIO(i, fail)
    \/ \E i \in DOMAIN pending : ReadDone(i)
    \/ \E v \in Values, hasCb \in BOOLEAN : Write(v, hasCb)
    \/ \E i \in DOMAIN pending, fail \in BOOLEAN : WriteIO(i, fail)
    \/ \E i \in DOMAIN pending, rethrows \in BOOLEAN : WriteDone(i, rethrows)
    \/ Edge

SpecIO == InitIO /\ [][NextIO]_vars

\* The event loop runs a handler to its end and fires every scheduled timer.
SpecFair ==
    /\ Spec
    /\ WF_vars(Invoke)
    /\ WF_vars(Return)
    /\ WF_vars(TimerFire)

\* ---- helpers of the properties ----
Registered == poller.registered
InvokedCallbacks == [i \in DOMAIN invoked |-> invoked[i][1]]

\* C1: in every reachable state, for every option policy, the value
\* descriptor is registered with the facility if and only if the listener
\* list is non-empty (states inside a delivery's fan-out included).
C1_RegisteredIffListeners == Registered <=> (listeners # <<>>)

\* a callback of a one-shot delivery has called watch: registered again
C1_Witness ==
    /\ ~persistentWatch
    /\ pc = "fanout"
    /\ lastOp = "watch"
    /\ Len(listeners) = 1
    /\ Registered

\* C2: with persistentWatch=false, the handler of a delivery leaves the
\* listener list empty and the registration removed, whatever the number
\* n >= 1 of listeners before it, and they stay so to the end of the delivery
\* unless a callback calls watch again.
C2_OneShotClears ==
    [][ ~persistentWatch =>
          /\ lastOp' = "deliver" =>
                /\ Len(listeners) >= 1
                /\ listeners' = <<>>
                /\ ~Registered'
          /\ (pc = "fanout" /\ listeners = <<>> /\ ~Registered
                /\ lastOp' \in {"invoke", "return", "unwatch"}) =>
                (listeners' = <<>> /\ ~Registered') ]_vars

\* a one-shot delivery to two listeners has returned
C2_Witness ==
    /\ ~persistentWatch
    /\ lastOp = "return"
    /\ Len(callbacks) >= 2
    /\ Len(invoked) = Len(callbacks)
    /\ listeners = <<>>
    /\ ~Registered

\* C3: with persistentWatch=true and debounceTimeout>0, a delivery that
\* occurs while a debounce timer is pending schedules no additional timer,
\* so at most one timer (hence one modify) is pending per debounce window.
C3_OneTimerPerWindow == DebouncePolicy => timers <= 1

\* C4 as claimed: for every policy, the handler of a delivery that carries
\* an error leaves the listener list and the registration as they were.
C4_ErrorKeepsWatchAnyPolicy ==
    [][ (lastOp' = "deliver" /\ err') =>
          (listeners' = listeners /\ Registered' = Registered) ]_vars

\* C4 amended: the error of a delivery is the error argument of every
\* invocation of that delivery; with persistentWatch=true the handler leaves
\* the listener list and the registration as they were, with
\* persistentWatch=false it clears the list and removes the registration as
\* for any delivery.
C4_ErrorPassedWatchKeptIfPersistent ==
    [][ /\ (lastOp' = "deliver" /\ err') =>
              IF persistentWatch
              THEN listeners' = listeners /\ Registered' /\ Registered
              ELSE listeners' = <<>> /\ ~Registered'
        /\ lastOp' = "invoke" =>
              /\ invoked'[Len(invoked')][2] = err
              /\ UNCHANGED <<listeners, poller, err>>
        /\ (lastOp' = "return" /\ err) =>
              /\ Len(invoked) = Len(callbacks)
              /\ \A i \in DOMAIN invoked : invoked[i][2] = TRUE ]_vars

\* a persistent watch has passed an error to two listeners and is still on
C4_Witness ==
    /\ persistentWatch
    /\ lastOp = "return"
    /\ err
    /\ Len(invoked) >= 2
    /\ \A i \in DOMAIN invoked : invoked[i][2]
    /\ listeners = callbacks
    /\ Registered

\* C5: the handler snapshots the listener list as it stands when the
\* delivery begins; the callbacks invoked so far are always a prefix of that
\* snapshot, in order and with duplicates, and the whole of it when the
\* handler returns, whatever the callbacks did to the listener list.
C5_FanOutIsSnapshot ==
    [][ /\ lastOp' = "deliver" => callbacks' = listeners
        /\ lastOp' \in {"invoke", "watch", "unwatch"} /\ pc = "fanout" =>
              /\ callbacks' = callbacks
              /\ InvokedCallbacks' = SubSeq(callbacks, 1, Len(invoked'))
        /\ lastOp' = "return" => InvokedCallbacks = callbacks ]_vars

\* a persistent delivery whose callbacks changed the listener list has
\* invoked the whole snapshot all the same
C5_Witness ==
    /\ persistentWatch
    /\ lastOp = "return"
    /\ Len(callbacks) >= 2
    /\ callbacks[1] = callbacks[2]
    /\ InvokedCallbacks = callbacks
    /\ listeners # callbacks

\* C6: with persistentWatch=true and debounceTimeout=0, no timer is ever
\* pending, no setTimeout or modify call is ever made, a registration is
\* always armed and without the one-shot flag, and the handler of a delivery
\* leaves the listener list and the registration as they were.
C6_PersistentNoDebounce ==
    [][ (persistentWatch /\ debounceTimeout = 0) =>
          /\ timers' = 0
          /\ \A i \in DOMAIN calls' : calls'[i] \notin {"setTimeout", "modify"}
          /\ Registered' => (poller'.armed /\ poller'.events = {EPOLLPRI})
          /\ lastOp' = "deliver" =>
                (listeners' = listeners /\ poller' = poller /\ Registered) ]_vars

\* three deliveries to the one listener of a persistent watch
C6_Witness ==
    /\ persistentWatch /\ debounceTimeout = 0
    /\ lastOp = "return"
    /\ nWatch = 1
    /\ nInvoked >= 3
    /\ Len(listeners) = 1
    /\ Registered /\ poller.armed
    /\ timers = 0

\* C7: a debounce timer that fires when the listener list is empty does
\* nothing: no read, no facility call, no error, no change of the listener
\* list or of the registration.
C7_TimerNoOpWhenUnwatched ==
    [][ (lastOp' = "timer" /\ listeners = <<>>) =>
          /\ calls' = <<>>
          /\ thrown' = "none"
          /\ UNCHANGED <<listeners, poller, fdOpen>> ]_vars

\* a timer has fired after unexport closed the descriptor
C7_Witness ==
    /\ lastOp = "timer"
    /\ ~fdOpen
    /\ listeners = <<>>
    /\ calls = <<>>
    /\ thrown = "none"

\* C8: with persistentWatch=false, the number of callback invocations never
\* exceeds the number of watch() calls.
C8_AtMostOncePerWatch == ~persistentWatch => nInvoked <= nWatch

\* three watch calls, each entry invoked once, over more than one delivery
C8_Witness ==
    /\ ~persistentWatch
    /\ lastOp = "return"
    /\ nWatch = 3
    /\ nInvoked = 3
    /\ Len(callbacks) = 1

\* C9: watch calls add exactly when the listener list was empty, and then
\* with the priority flag, and with the one-shot flag unless
\* persistentWatch=true and debounceTimeout=0; a watch on a non-empty list
\* makes no facility call and leaves the registration alone.
C9_AddOnFirstListener ==
    [][ lastOp' = "watch" =>
          /\ listeners' = Append(listeners, lastArg')
          /\ IF listeners = <<>>
             THEN /\ calls' = <<"add">>
                  /\ thrown' = "none"
                  /\ Registered' /\ poller'.armed
                  /\ EPOLLPRI \in poller'.events
                  /\ (EPOLLONESHOT \in poller'.events)
                        <=> ~(persistentWatch /\ debounceTimeout = 0)
             ELSE /\ calls' = <<>>
                  /\ thrown' = "none"
                  /\ poller' = poller ]_vars

\* a second listener has joined the one registration
C9_Witness ==
    /\ lastOp = "watch"
    /\ Len(listeners) = 2
    /\ calls = <<>>
    /\ Registered

\* C10: unwatch(cb) keeps exactly the entries different from cb, in order;
\* unwatch() empties the list; remove is called exactly when the call makes
\* a non-empty list empty.
C10_UnwatchRemovesMatches ==
    [][ lastOp' = "unwatch" =>
          LET Other(x) == x # lastArg'
          IN /\ lastArg' \in Callbacks => listeners' = SelectSeq(listeners, Other)
             /\ lastArg' = NoCallback => listeners' = <<>>
             /\ calls' = IF listeners # <<>> /\ listeners' = <<>>
                         THEN <<"remove">> ELSE <<>>
             /\ Registered' = (listeners' # <<>>)
             /\ thrown' = "none" ]_vars

\* unwatch("a") has taken both entries of "a" and left "b" registered
C10_Witness ==
    /\ lastOp = "unwatch"
    /\ lastArg = "a"
    /\ removed = 2
    /\ listeners = <<"b">>
    /\ calls = <<>>
    /\ Registered

\* ---- claims about the watch state machine, continued ----
FacilityCalls == {"add", "modify", "remove"}

\* C15: with persistentWatch=true and debounceTimeout>0, while a debounce
\* timer is pending the registration is not armed, whatever watch/unwatch
\* calls are made inside the window.
C15_NotArmedWhileTimerPending ==
    (DebouncePolicy /\ timers > 0) => ~poller.armed

\* C16: every facility call meets a legal registration state and none
\* raises: add only on an unregistered descriptor, modify and remove only on
\* a registered one; there is never more than the one registration; a
\* debounce timer that re-arms calls modify with the priority and one-shot
\* flags and never add.
C16_FacilityCallsLegal ==
    [][ /\ thrown' = "none"
        /\ \A i \in DOMAIN calls' :
              /\ calls'[i] = "add" => (~Registered /\ Registered')
              /\ calls'[i] = "modify" => (Registered /\ Registered')
              /\ calls'[i] = "remove" => (Registered /\ ~Registered')
        /\ Cardinality({i \in DOMAIN calls' : calls'[i] \in FacilityCalls}) <= 1
        /\ lastOp' = "timer" =>
              /\ calls' \in {<<>>, <<"read", "modify">>}
              /\ calls' # <<>> =>
                    (poller'.armed /\ poller'.events = {EPOLLPRI, EPOLLONESHOT}) ]_vars

\* a timer scheduled by a delivery to "a" fires after "a" was unwatched and
\* "b" watched: its modify meets the registration of "b"
C16_Witness ==
    /\ DebouncePolicy
    /\ lastOp = "timer"
    /\ calls = <<"read", "modify">>
    /\ InvokedCallbacks = <<"a">>
    /\ nInvoked = 1
    /\ nWatch = 2
    /\ listeners = <<"b">>
    /\ Registered /\ poller.armed

\* C17: unexport empties the listener list and removes the registration
\* (when there is one) before it closes the descriptor, closes it once and
\* then writes the unexport file; a closed descriptor is never registered,
\* has no listeners, and is never read by a timer that fires later.
C17_UnexportOrder ==
    [][ /\ lastOp' = "unexport" =>
              /\ fdOpen /\ ~fdOpen'
              /\ listeners' = <<>>
              /\ ~Registered'
              /\ calls' = (IF listeners # <<>> THEN <<"remove">> ELSE <<>>)
                          \o <<"close", "unexport">>
        /\ ~fdOpen' =>
              /\ listeners' = <<>>
              /\ ~Registered'
              /\ thrown' = "none"
              /\ \A i \in DOMAIN calls' : calls'[i] # "read"
        /\ ~fdOpen => ~fdOpen' ]_vars

\* unexport from the debounce wait: listeners removed, timer still pending
C17_Witness ==
    /\ lastOp = "unexport"
    /\ DebouncePolicy
    /\ timers > 0
    /\ calls = <<"remove", "close", "unexport">>
    /\ ~fdOpen /\ ~Registered /\ listeners = <<>>

\* C18: with persistentWatch=true and debounceTimeout>0, whenever listeners
\* are present and the registration is disarmed a debounce timer is pending,
\* and, timers firing eventually, such a state leads to the registration
\* being armed again or the listener list being emptied.
DisarmedWatch ==
    /\ persistentWatch /\ debounceTimeout > 0
    /\ listeners # <<>> /\ Registered /\ ~poller.armed
C18_NeverStuckDisarmed ==
    /\ [](DisarmedWatch => timers > 0)
    /\ DisarmedWatch ~> (poller.armed \/ listeners = <<>>)

\* a timer has re-armed a watch that a delivery had disarmed
C18_Witness ==
    /\ DebouncePolicy
    /\ lastOp = "timer"
    /\ calls = <<"read", "modify">>
    /\ nInvoked >= 1
    /\ timers = 0
    /\ listeners # <<>>
    /\ poller.armed

\* C19: with persistentWatch=false the handler empties the listener list and
\* removes the registration before the first callback runs; a watch called
\* by a callback appends to the list as it then stands, the first such call
\* adds the descriptor afresh, armed, with the priority and one-shot flags,
\* and the rest of the delivery leaves the list and the registration alone,
\* so that when the handler returns the descriptor is registered and armed
\* exactly when a callback has left a listener.
C19_RewatchSurvivesDelivery ==
    [][ ~persistentWatch =>
          /\ lastOp' = "deliver" => (listeners' = <<>> /\ ~Registered' /\ invoked' = <<>>)
          /\ (lastOp' = "watch" /\ pc = "fanout") =>
                /\ listeners' = Append(listeners, lastArg')
                /\ listeners = <<>> => calls' = <<"add">>
                /\ poller' = [registered |-> TRUE, armed |-> TRUE,
                              events |-> {EPOLLPRI, EPOLLONESHOT}]
          /\ lastOp' \in {"invoke", "return"} => UNCHANGED <<listeners, poller>>
          /\ lastOp' = "return" =>
                (Registered' <=> listeners' # <<>>) /\ (Registered' => poller'.armed) ]_vars

\* a callback of a one-shot delivery to "a" has watched "b": after the
\* handler returned "b" alone is listening, registered and armed
C19_Witness ==
    /\ ~persistentWatch
    /\ lastOp = "return"
    /\ callbacks = <<"a">>
    /\ InvokedCallbacks = <<"a">>
    /\ listeners = <<"b">>
    /\ nWatch = 2
    /\ poller = [registered |-> TRUE, armed |-> TRUE,
                 events |-> {EPOLLPRI, EPOLLONESHOT}]

\* ---- claims about the value channel ----
\* the request that a completion step has taken out of the pending list
Completed(i, kind) ==
    /\ i \in DOMAIN pending
    /\ pending[i].kind = kind
    /\ pending[i].stage = "done"
    /\ pending' = SubSeq(pending, 1, i - 1) \o SubSeq(pending, i + 1, Len(pending))

\* C12: on an output line, a writeSync(v) that succeeds leaves the byte of
\* the value file at '1' for v = 1 and '0' for v = 0, nothing but a write
\* changes that byte, a readSync that succeeds returns 1 exactly when the
\* byte is '1', and so a readSync right after writeSync(v) returns v.
C12_WriteReadRoundTrip ==
    [][ sysfs.direction = "out" =>
          /\ (lastOp' = "writeSync" /\ thrown' = "none") =>
                /\ result'.value \in Values
                /\ valueFile' = IF result'.value = 1 THEN "1" ELSE "0"
          /\ lastOp' \notin {"writeSync", "writeIO"} => valueFile' = valueFile
          /\ (lastOp' = "readSync" /\ thrown' = "none") =>
                /\ (result'.value = 1) <=> (valueFile = "1")
                /\ (result'.value = 0) <=> (valueFile = "0")
                /\ (lastOp = "writeSync" /\ thrown = "none") =>
                      result'.value = result.value ]_vars

\* readSync has returned 1 on an output line whose byte is '1'
C12_Witness ==
    /\ sysfs.direction = "out"
    /\ lastOp = "readSync"
    /\ thrown = "none"
    /\ result.value = 1
    /\ valueFile = "1"
    /\ pending = <<>>

\* C14 as claimed: an error of an asynchronous read or write is always
\* handed to a callback of the caller (or at least raised), never dropped.
C14_AsyncErrorAlwaysReported ==
    (result.op \in {"read", "write"} /\ result.err) =>
        (result.called \/ thrown # "none")

\* C14 amended: a readSync or writeSync whose I/O fails raises and changes
\* neither the buffer nor the file; an asynchronous read or write whose I/O
\* failed and whose caller passed a callback invokes that callback with the
\* error and without a value; without a callback nothing is invoked.
C14_ErrorsSurfaceWhenCallbackGiven ==
    [][ /\ lastOp' \in {"readSync", "writeSync"} =>
              /\ result'.called
              /\ result'.err <=> thrown' # "none"
              /\ result'.err => UNCHANGED <<readBuffer, valueFile>>
              /\ (lastOp' = "readSync" /\ ~result'.err) => result'.value \in Values
              /\ (lastOp' = "readSync" /\ result'.err) => result'.value = "none"
        /\ lastOp' = "readDone" =>
              \E i \in DOMAIN pending :
                  /\ Completed(i, "read")
                  /\ result'.called = pending[i].hasCb
                  /\ (pending[i].hasCb /\ pending[i].err) =>
                        (result'.err /\ result'.value = "none")
                  /\ (pending[i].hasCb /\ ~pending[i].err) =>
                        (~result'.err /\ result'.value \in Values)
        /\ lastOp' = "writeDone" =>
              \E i \in DOMAIN pending :
                  /\ Completed(i, "write")
                  /\ result'.called = pending[i].hasCb
                  /\ pending[i].hasCb => (result'.err = pending[i].err)
                  /\ result'.value = "none" ]_vars

\* the callback of a failed asynchronous read got the error and no value
C14_Witness ==
    /\ lastOp = "readDone"
    /\ result.op = "read"
    /\ result.called
    /\ result.err
    /\ result.value = "none"

\* C20: the value an asynchronous read hands to its callback is the value
\* of the byte that this read's own I/O fetched.
C20_ReadDeliversOwnValue ==
    (result.op = "read" /\ result.called /\ ~result.err) =>
        (result.value = IF result.fetched = "1" THEN 1 ELSE 0)

\* ---- claims about the constructor ----
ExportWrites == {"write export", "write direction", "write edge", "chmod"}
IsPrefix(a, b) == Len(a) <= Len(b) /\ a = SubSeq(b, 1, Len(a))
Position(seq, c) == CHOOSE i \in DOMAIN seq : seq[i] = c
Occurs(seq, c) == \E i \in DOMAIN seq : seq[i] = c

\* C11: a constructor that returns has read the value descriptor after
\* opening it and before creating the poller, has made no add call,
\* registered nothing and invoked no listener; a readSync after it returns
\* the value of the file and touches neither the facility nor the listeners;
\* and every add meets a read buffer that a read has filled.
C11_ReadBeforeRegistration ==
    [][ /\ (lastOp' = "construct" /\ built' = "yes") =>
              /\ Occurs(calls', "open") /\ Occurs(calls', "read")
              /\ Position(calls', "open") < Position(calls', "read")
              /\ Position(calls', "read") < Position(calls', "new Epoll")
              /\ ~Occurs(calls', "add")
              /\ readBuffer' = valueFile
              /\ ~Registered' /\ listeners' = <<>> /\ invoked' = <<>>
              /\ nInvoked' = 0
        /\ (lastOp' = "readSync" /\ thrown' = "none") =>
              /\ result'.value = IF valueFile = "1" THEN 1 ELSE 0
              /\ calls' = <<"read">>
              /\ UNCHANGED <<listeners, poller, invoked, nInvoked>>
        /\ Occurs(calls', "add") =>
              (lastOp' = "watch" /\ built = "yes" /\ readBuffer \in Bytes) ]_vars

\* the first watch on a freshly constructed line has added the descriptor
C11_Witness ==
    /\ lastOp = "watch"
    /\ calls = <<"add">>
    /\ nWatch = 1
    /\ built = "yes"
    /\ readBuffer \in Bytes
    /\ Registered

\* C13: the constructor of a line whose directory exists writes no file and
\* changes no permission, and leaves direction and edge as they were; for a
\* line that is not exported its calls are, up to the one that fails, export,
\* direction, edge only when an edge was given, chmod, then open and read.
C13_NoClobberAndExportOrder ==
    [][ lastOp' = "construct" =>
          LET edgeGiven == ctorArgs'[2] \in Edges
              expected == <<"existsSync", "write export", "write direction">>
                          \o (IF edgeGiven THEN <<"write edge">> ELSE <<>>)
                          \o <<"chmod", "open", "read", "new Epoll">>
          IN IF sysfs.exists
             THEN /\ sysfs' = sysfs
                  /\ \A i \in DOMAIN calls' : calls'[i] \notin ExportWrites
             ELSE /\ IsPrefix(calls', expected)
                  /\ built' = "yes" =>
                        /\ calls' = expected
                        /\ sysfs' = [exists |-> TRUE, direction |-> ctorArgs'[1],
                                     edge |-> IF edgeGiven THEN ctorArgs'[2]
                                              ELSE "none"] ]_vars

\* constructed as an output with edge 'both' over a line that was exported
\* as an input without edge: nothing written, configuration as it was
C13_Witness ==
    /\ lastOp = "construct"
    /\ built = "yes"
    /\ ctorArgs = <<"out", "both">>
    /\ sysfs = [exists |-> TRUE, direction |-> "in", edge |-> "none"]
    /\ calls = <<"existsSync", "open", "read", "new Epoll">>
====
